---- MODULE Spec2Model ----
(***************************************************************************)
(* The anchor generator of pytorch_retinanet/anchors.py as a state         *)
(* machine: the constructor AnchorGenerator.__init__ statement by          *)
(* statement, and calls of AnchorGenerator.forward (grid_anchors, one loop *)
(* iteration per step, then torch.cat) by one or two threads.              *)
(*                                                                         *)
(* Numbers.  A Python float v is held as the integer 4*v (quarter units):  *)
(* sizes, aspect ratios, the offset and every box coordinate.  Python ints *)
(* (strides, heights, widths) are plain integers.  The input sets below    *)
(* hold only values on which every product, quotient and square root of    *)
(* the code is exact in quarter units (InputsExact is the check of that),  *)
(* so the float32/float64 rounding of the code is outside the model.       *)
(***************************************************************************)
EXTENDS Integers, Sequences, FiniteSets, TLC

VARIABLES
    ctor,           \* position of __init__: none, sizes, aspect_ratios, cell_anchors, offset, done, raised
    args,           \* the arguments __init__ was called with
    raised,         \* the exception __init__ raised ("none" when it did not)
    strides,        \* self.strides
    num_features,   \* self.num_features
    sizes,          \* self.sizes
    aspect_ratios,  \* self.aspect_ratios
    cell_anchors,   \* self.cell_anchors (the BufferList: one tensor of boxes per level)
    offset,         \* self.offset
    calls           \* per thread: the forward call in progress and its locals

vars == <<ctor, args, raised, strides, num_features, sizes, aspect_ratios,
          cell_anchors, offset, calls>>

self == <<strides, num_features, sizes, aspect_ratios, cell_anchors, offset>>

---------------------------------------------------------------------------
(* Bounds and input sets *)

\* the largest number of pyramid levels (len(strides)) of a generator
MaxLevels == 2

Threads == {1, 2}

\* heights and widths (H, W) of feature maps
Shapes == {<<1, 2>>, <<2, 2>>, <<2, 3>>, <<3, 2>>}

StrideVals == {2, 8}

\* offsets 0.0, 0.5 and 0.75 lie in [0, 1); -0.5 and 1.0 lie outside
Offsets == {-2, 0, 2, 3, 4}

\* sizes -1.0, 0.0, 1.0, 2.0 and aspect ratios -1.0, 0.0, 0.25, 1.0, 4.0
SizeVals == {-4, 0, 4, 8}

RatioVals == {-4, 0, 1, 4, 16}

---------------------------------------------------------------------------
(* Python values and exceptions *)

PyNum(n) == [isList |-> FALSE, num |-> n, items |-> <<>>]

PyList(s) == [isList |-> TRUE, num |-> 0, items |-> s]

Ok(v) == [err |-> "none", val |-> v]

Raise(e) == [err |-> e, val |-> <<>>]

Min(a, b) == IF a <= b THEN a ELSE b

\* the Python sequence repetition s * n
RECURSIVE SeqMul(_, _)
SeqMul(s, n) == IF n <= 0 THEN <<>> ELSE s \o SeqMul(s, n - 1)

\* sequences over S of length lo..hi
SeqsOf(S, lo, hi) == UNION {[1..n -> S] : n \in lo..hi}

---------------------------------------------------------------------------
(* Float arithmetic in quarter units *)

Fx(n) == 4 * n

FxMul(a, b) == (a * b) \div 4

\* a / b for b # 0 (TLC's \div takes a positive divisor)
FxDiv(a, b) == IF b > 0 THEN (4 * a) \div b ELSE (-(4 * a)) \div (-b)

ISqrt(n) == CHOOSE r \in 0..n : r * r <= n /\ (r + 1) * (r + 1) > n

\* math.sqrt(a) for a >= 0
FxSqrt(a) == ISqrt(4 * a)

\* ceil(a / b) for b # 0
CeilDiv(a, b) == IF b > 0 THEN -((-a) \div b) ELSE -(a \div (-b))

---------------------------------------------------------------------------
(* _broadcast_params *)

\* mutant: the single nested list is returned without being repeated
broadcast_params_no_repeat(params, n) ==
    IF ~params.isList THEN Raise("AssertionError")
    ELSE IF Len(params.items) = 0 THEN Raise("AssertionError")
    ELSE IF ~params.items[1].isList THEN Ok(SeqMul(<<params>>, n))
    ELSE IF Len(params.items) = 1 THEN Ok(params.items)
    ELSE IF Len(params.items) # n THEN Raise("AssertionError")
    ELSE Ok(params.items)

\* mutant: the length of a nested list is not compared with the number of levels
broadcast_params_no_length_check(params, n) ==
    IF ~params.isList THEN Raise("AssertionError")
    ELSE IF Len(params.items) = 0 THEN Raise("AssertionError")
    ELSE IF ~params.items[1].isList THEN Ok(SeqMul(<<params>>, n))
    ELSE IF Len(params.items) = 1 THEN Ok(SeqMul(params.items, n))
    ELSE Ok(params.items)

broadcast_params(params, n) ==
    IF ~params.isList THEN Raise("AssertionError")
    ELSE IF Len(params.items) = 0 THEN Raise("AssertionError")
    ELSE IF ~params.items[1].isList THEN Ok(SeqMul(<<params>>, n))
    ELSE IF Len(params.items) = 1 THEN Ok(SeqMul(params.items, n))
    ELSE IF Len(params.items) # n THEN Raise("AssertionError")
    ELSE Ok(params.items)

---------------------------------------------------------------------------
(* generate_cell_anchors and _calculate_anchors *)

\* the body of the inner loop: the box of one size and one aspect ratio
CellBox(size, aspect_ratio) ==
    LET area == FxMul(size, size) IN
    IF aspect_ratio = 0 THEN Raise("ZeroDivisionError")
    ELSE LET q == FxDiv(area, aspect_ratio) IN
         IF q < 0 THEN Raise("ValueError")
         ELSE LET w == FxSqrt(q)
                  h == FxMul(aspect_ratio, w)
              IN  Ok(<<-(w \div 2), -(h \div 2), w \div 2, h \div 2>>)

\* the two nested for loops, at (i, j), with the boxes appended so far
RECURSIVE CellAnchorsLoop(_, _, _, _, _)
CellAnchorsLoop(szs, ars, i, j, anchors) ==
    IF i > Len(szs) THEN Ok(anchors)
    ELSE IF j > Len(ars) THEN CellAnchorsLoop(szs, ars, i + 1, 1, anchors)
    ELSE LET b == CellBox(szs[i].num, ars[j].num) IN
         IF b.err # "none" THEN b
         ELSE CellAnchorsLoop(szs, ars, i, j + 1, Append(anchors, b.val))

\* mutant: the loops exchanged (aspect ratios outside, sizes inside)
RECURSIVE RatioMajorLoop(_, _, _, _, _)
RatioMajorLoop(szs, ars, j, i, anchors) ==
    IF j > Len(ars) THEN Ok(anchors)
    ELSE IF i > Len(szs) THEN RatioMajorLoop(szs, ars, j + 1, 1, anchors)
    ELSE LET b == CellBox(szs[i].num, ars[j].num) IN
         IF b.err # "none" THEN b
         ELSE RatioMajorLoop(szs, ars, j, i + 1, Append(anchors, b.val))

generate_cell_anchors_ratio_major(szs, ars) ==
    RatioMajorLoop(szs.items, ars.items, 1, 1, <<>>)

generate_cell_anchors(szs, ars) == CellAnchorsLoop(szs.items, ars.items, 1, 1, <<>>)

\* the list comprehension over zip(sizes, aspect_ratios), from level l on
RECURSIVE CalcLoop(_, _, _, _)
CalcLoop(szs, ars, l, acc) ==
    IF l > Min(Len(szs), Len(ars)) THEN Ok(acc)
    ELSE LET c == generate_cell_anchors(szs[l], ars[l]) IN
         IF c.err # "none" THEN c
         ELSE CalcLoop(szs, ars, l + 1, Append(acc, c.val))

calculate_anchors(szs, ars) == CalcLoop(szs, ars, 1, <<>>)

---------------------------------------------------------------------------
(* _compute_grid_offsets *)

\* torch.arange(start, end, step)
Arange(start, end, step) ==
    IF step = 0 THEN Raise("RuntimeError")
    ELSE IF ~((step > 0 /\ start <= end) \/ (step < 0 /\ start >= end))
         THEN Raise("RuntimeError")
    ELSE Ok([k \in 1..CeilDiv(end - start, step) |-> start + (k - 1) * step])

\* torch.meshgrid(a, b): two Len(a) x Len(b) matrices
Meshgrid(a, b) ==
    << [i \in 1..Len(a) |-> [j \in 1..Len(b) |-> a[i]]],
       [i \in 1..Len(a) |-> [j \in 1..Len(b) |-> b[j]]] >>

\* reshape(-1) of a matrix, reshape(-1, 4) of a P x A x 4 tensor: rows end to end
RECURSIVE Flatten(_)
Flatten(m) == IF Len(m) = 0 THEN <<>> ELSE Head(m) \o Flatten(Tail(m))

\* mutant: the two results of meshgrid unpacked in the other order
compute_grid_offsets_transposed(size, stride, off) ==
    LET H == size[1]
        W == size[2]
        shifts_x == Arange(off * stride, Fx(W * stride), Fx(stride))
        shifts_y == Arange(off * stride, Fx(H * stride), Fx(stride))
    IN  IF shifts_x.err # "none" THEN shifts_x
        ELSE IF shifts_y.err # "none" THEN shifts_y
        ELSE LET g == Meshgrid(shifts_x.val, shifts_y.val)
             IN  Ok(<<Flatten(g[1]), Flatten(g[2])>>)

compute_grid_offsets(size, stride, off) ==
    LET H == size[1]
        W == size[2]
        shifts_x == Arange(off * stride, Fx(W * stride), Fx(stride))
        shifts_y == Arange(off * stride, Fx(H * stride), Fx(stride))
    IN  IF shifts_x.err # "none" THEN shifts_x
        ELSE IF shifts_y.err # "none" THEN shifts_y
        ELSE LET g == Meshgrid(shifts_y.val, shifts_x.val)
             IN  Ok(<<Flatten(g[2]), Flatten(g[1])>>)

---------------------------------------------------------------------------
(* grid_anchors and forward *)

\* torch.stack((shift_x, shift_y, shift_x, shift_y), dim=1)
Stack(shift_x, shift_y) ==
    [p \in 1..Len(shift_x) |-> <<shift_x[p], shift_y[p], shift_x[p], shift_y[p]>>]

\* shifts.view(-1, 1, 4) + base_anchors.view(1, -1, 4)
BroadcastAdd(shifts, base_anchors) ==
    [p \in 1..Len(shifts) |->
        [k \in 1..Len(base_anchors) |->
            [c \in 1..4 |-> shifts[p][c] + base_anchors[k][c]]]]

\* one iteration of the loop of grid_anchors: shift_x, shift_y and the anchors
\* of one level
LevelAnchors(size, stride, base_anchors, off) ==
    LET g == compute_grid_offsets(size, stride, off) IN
    IF g.err # "none" THEN g
    ELSE LET shift_x == g.val[1]
             shift_y == g.val[2]
             shifts == Stack(shift_x, shift_y)
         IN  Ok(<<shift_x, shift_y, Flatten(BroadcastAdd(shifts, base_anchors))>>)

\* the number of iterations of zip(grid_sizes, self.strides, buffers)
ZipLen(grid_sizes, strd, buffers) == Min(Len(grid_sizes), Min(Len(strd), Len(buffers)))

\* torch.cat(tensors, dim=0)
Cat(tensors) == IF Len(tensors) = 0 THEN Raise("RuntimeError") ELSE Ok(Flatten(tensors))

---------------------------------------------------------------------------
(* The constructor *)

NoCall == [pc |-> "idle", grid_sizes |-> <<>>, i |-> 0, anchors |-> <<>>,
           shift_x |-> <<>>, shift_y |-> <<>>, out |-> <<>>, exc |-> "none"]

NoArgs == [sizes |-> PyNum(0), aspect_ratios |-> PyNum(0), strides |-> <<>>, offset |-> 0]

Init ==
    /\ ctor = "none"
    /\ args = NoArgs
    /\ raised = "none"
    /\ strides = <<>>
    /\ num_features = 0
    /\ sizes = <<>>
    /\ aspect_ratios = <<>>
    /\ cell_anchors = <<>>
    /\ offset = 0
    /\ calls = [t \in Threads |-> NoCall]

\* __init__ is entered: self.strides and self.num_features are set
New(a) ==
    /\ ctor = "none"
    /\ args' = a
    /\ strides' = a.strides
    /\ num_features' = Len(a.strides)
    /\ ctor' = "sizes"
    /\ UNCHANGED <<raised, sizes, aspect_ratios, cell_anchors, offset, calls>>

InitSizes ==
    /\ ctor = "sizes"
    /\ LET r == broadcast_params(args.sizes, num_features) IN
       IF r.err # "none"
       THEN /\ ctor' = "raised" /\ raised' = r.err /\ UNCHANGED sizes
       ELSE /\ ctor' = "aspect_ratios" /\ sizes' = r.val /\ UNCHANGED raised
    /\ UNCHANGED <<args, strides, num_features, aspect_ratios, cell_anchors, offset, calls>>

InitAspectRatios ==
    /\ ctor = "aspect_ratios"
    /\ LET r == broadcast_params(args.aspect_ratios, num_features) IN
       IF r.err # "none"
       THEN /\ ctor' = "raised" /\ raised' = r.err /\ UNCHANGED aspect_ratios
       ELSE /\ ctor' = "cell_anchors" /\ aspect_ratios' = r.val /\ UNCHANGED raised
    /\ UNCHANGED <<args, strides, num_features, sizes, cell_anchors, offset, calls>>

InitCellAnchors ==
    /\ ctor = "cell_anchors"
    /\ LET r == calculate_anchors(sizes, aspect_ratios) IN
       IF r.err # "none"
       THEN /\ ctor' = "raised" /\ raised' = r.err /\ UNCHANGED cell_anchors
       ELSE /\ ctor' = "offset" /\ cell_anchors' = r.val /\ UNCHANGED raised
    /\ UNCHANGED <<args, strides, num_features, sizes, aspect_ratios, offset, calls>>

InitOffset ==
    /\ ctor = "offset"
    /\ offset' = args.offset
    /\ ctor' = "done"
    /\ UNCHANGED <<args, raised, strides, num_features, sizes, aspect_ratios,
                   cell_anchors, calls>>

---------------------------------------------------------------------------
(* forward *)

\* forward is called with feature maps of the shapes grid_sizes
Forward(t, grid_sizes) ==
    /\ ctor = "done"
    /\ calls[t].pc = "idle"
    /\ calls' = [calls EXCEPT ![t] = [NoCall EXCEPT !.pc = "loop",
                                                     !.grid_sizes = grid_sizes,
                                                     !.i = 1]]
    /\ UNCHANGED <<ctor, args, raised, self>>

\* mutant: the shifts are added to the buffer in place (base_anchors += shift)
GridAnchorsStepInPlace(t) ==
    /\ calls[t].pc = "loop"
    /\ LET c == calls[t]
           i == c.i
       IN  IF i > ZipLen(c.grid_sizes, strides, cell_anchors)
           THEN /\ calls' = [calls EXCEPT ![t].pc = "cat"]
                /\ UNCHANGED cell_anchors
           ELSE LET a == LevelAnchors(c.grid_sizes[i], strides[i], cell_anchors[i], offset)
                    n == Len(cell_anchors[i])
                IN  IF a.err # "none"
                    THEN /\ calls' = [calls EXCEPT ![t].pc = "raised", ![t].exc = a.err]
                         /\ UNCHANGED cell_anchors
                    ELSE /\ calls' = [calls EXCEPT ![t].i = i + 1,
                                                   ![t].shift_x = a.val[1],
                                                   ![t].shift_y = a.val[2],
                                                   ![t].anchors = Append(c.anchors, a.val[3])]
                         /\ cell_anchors' =
                                [cell_anchors EXCEPT ![i] =
                                    [k \in 1..n |-> a.val[3][Len(a.val[3]) - n + k]]]
    /\ UNCHANGED <<ctor, args, raised, strides, num_features, sizes, aspect_ratios, offset>>

\* one iteration of the loop of grid_anchors, or its end
GridAnchorsStep(t) ==
    /\ calls[t].pc = "loop"
    /\ LET c == calls[t]
           i == c.i
       IN  IF i > ZipLen(c.grid_sizes, strides, cell_anchors)
           THEN calls' = [calls EXCEPT ![t].pc = "cat"]
           ELSE LET a == LevelAnchors(c.grid_sizes[i], strides[i], cell_anchors[i], offset)
                IN  IF a.err # "none"
                    THEN calls' = [calls EXCEPT ![t].pc = "raised", ![t].exc = a.err]
                    ELSE calls' = [calls EXCEPT ![t].i = i + 1,
                                                ![t].shift_x = a.val[1],
                                                ![t].shift_y = a.val[2],
                                                ![t].anchors = Append(c.anchors, a.val[3])]
    /\ UNCHANGED <<ctor, args, raised, self>>

\* anchors = [torch.cat(anchors_over_all_feature_maps, dim=0)]
ForwardCat(t) ==
    /\ calls[t].pc = "cat"
    /\ LET r == Cat(calls[t].anchors) IN
       IF r.err # "none"
       THEN calls' = [calls EXCEPT ![t].pc = "raised", ![t].exc = r.err]
       ELSE calls' = [calls EXCEPT ![t].pc = "done", ![t].out = r.val]
    /\ UNCHANGED <<ctor, args, raised, self>>

\* the caller has the result (or the exception); the thread is free again
Return(t) ==
    /\ calls[t].pc \in {"done", "raised"}
    /\ calls' = [calls EXCEPT ![t] = NoCall]
    /\ UNCHANGED <<ctor, args, raised, self>>

---------------------------------------------------------------------------
(* The constructor and forward as functions of their arguments *)

\* the fields a fresh AnchorGenerator(a) has, or the exception it raises
construct(a) ==
    LET n == Len(a.strides)
        s == broadcast_params(a.sizes, n)
        r == broadcast_params(a.aspect_ratios, n)
        c == calculate_anchors(s.val, r.val)
    IN  IF s.err # "none" THEN Raise(s.err)
        ELSE IF r.err # "none" THEN Raise(r.err)
        ELSE IF c.err # "none" THEN Raise(c.err)
        ELSE Ok(<<a.strides, n, s.val, r.val, c.val, a.offset>>)

\* the loop of grid_anchors from iteration i on
RECURSIVE GridAnchorsLoop(_, _, _, _, _, _)
GridAnchorsLoop(grid_sizes, strd, buffers, off, i, anchors) ==
    IF i > ZipLen(grid_sizes, strd, buffers) THEN Ok(anchors)
    ELSE LET a == LevelAnchors(grid_sizes[i], strd[i], buffers[i], off) IN
         IF a.err # "none" THEN a
         ELSE GridAnchorsLoop(grid_sizes, strd, buffers, off, i + 1, Append(anchors, a.val[3]))

grid_anchors(obj, grid_sizes) == GridAnchorsLoop(grid_sizes, obj[1], obj[5], obj[6], 1, <<>>)

forward(obj, grid_sizes) ==
    LET g == grid_anchors(obj, grid_sizes) IN
    IF g.err # "none" THEN g ELSE Cat(g.val)

---------------------------------------------------------------------------
(* Specifications *)

\* a flat list of numbers, a list of lists of numbers
FlatList(s) == PyList([k \in 1..Len(s) |-> PyNum(s[k])])

NestedList(s) == PyList([k \in 1..Len(s) |-> FlatList(s[k])])

\* the parameter lists a constructor may be given over the numbers V: a number
\* (no list), the empty list, flat lists, and lists of 1..MaxLevels+1 lists
\* (4 and 16 are the sizes and the aspect ratios 1.0 and 4.0)
InnerLists == {<<4>>, <<16>>, <<4, 16>>}

WideParams(V) ==
    {PyNum(4)}
    \cup {FlatList(s) : s \in SeqsOf(V, 0, 2)}
    \cup {NestedList(s) : s \in SeqsOf(InnerLists, 1, MaxLevels + 1)}

FewSizes == {FlatList(<<4, 8>>), FlatList(<<0>>), NestedList(<<<<8>>, <<4, 8>>>>)}

FewRatios == {FlatList(<<1, 16>>), FlatList(<<-4>>), NestedList(<<<<4>>>>)}

CtorArgs ==
    {[sizes |-> s, aspect_ratios |-> r, strides |-> st, offset |-> o] :
        s \in WideParams(SizeVals), r \in FewRatios,
        st \in SeqsOf({8}, 0, MaxLevels), o \in Offsets}
    \cup
    {[sizes |-> s, aspect_ratios |-> r, strides |-> st, offset |-> o] :
        s \in FewSizes, r \in WideParams(RatioVals),
        st \in SeqsOf({8}, 0, MaxLevels), o \in Offsets}

\* the generators forward is called on
GenArgs ==
    {[sizes |-> s, aspect_ratios |-> r, strides |-> st, offset |-> o] :
        s \in {FlatList(<<4, 8>>), NestedList(<<<<8>>, <<4, 8>>>>)},
        r \in {FlatList(<<4>>), FlatList(<<1, 16>>)},
        st \in SeqsOf(StrideVals, 1, MaxLevels), o \in Offsets}

\* (with the offset 1.5 a level of height 1 makes torch.arange raise)
ThreadArgs ==
    {[sizes |-> FlatList(<<4>>), aspect_ratios |-> FlatList(<<1, 16>>),
      strides |-> st, offset |-> o] :
        st \in SeqsOf({2}, 1, MaxLevels), o \in {0, 2, 6}}

FeatureShapes == SeqsOf(Shapes, 0, MaxLevels + 1)

ThreadShapes == SeqsOf({<<1, 2>>, <<2, 2>>}, 0, MaxLevels + 1)

\* one generator, calls of forward one after another
Next ==
    \/ \E a \in GenArgs : New(a)
    \/ InitSizes
    \/ InitAspectRatios
    \/ InitCellAnchors
    \/ InitOffset
    \/ \E g \in FeatureShapes : Forward(1, g)
    \/ GridAnchorsStep(1)
    \/ ForwardCat(1)
    \/ Return(1)

Spec == Init /\ [][Next]_vars

\* the constructor alone, on well-formed and malformed arguments
NextInit ==
    \/ \E a \in CtorArgs : New(a)
    \/ InitSizes
    \/ InitAspectRatios
    \/ InitCellAnchors
    \/ InitOffset

SpecInit == Init /\ [][NextInit]_vars

\* one generator, calls of forward by two threads, interleaved
NextThreads ==
    \/ \E a \in ThreadArgs : New(a)
    \/ InitSizes
    \/ InitAspectRatios
    \/ InitCellAnchors
    \/ InitOffset
    \/ \E t \in Threads, g \in ThreadShapes : Forward(t, g)
    \/ \E t \in Threads : GridAnchorsStep(t)
    \/ \E t \in Threads : ForwardCat(t)
    \/ \E t \in Threads : Return(t)

SpecThreads == Init /\ [][NextThreads]_vars

---------------------------------------------------------------------------
(* The arithmetic of the inputs is exact *)

FxExact(size, ratio) ==
    \/ ratio = 0
    \/ LET area == FxMul(size, size)
           q == FxDiv(area, ratio)
           w == FxSqrt(q)
           h == FxMul(ratio, w)
           absr == IF ratio < 0 THEN -ratio ELSE ratio
       IN  /\ (size * size) % 4 = 0
           /\ (4 * area) % absr = 0
           /\ q < 0 \/ (w * w = 4 * q /\ (absr * w) % 4 = 0 /\ w % 2 = 0 /\ h % 2 = 0)

InputsExact ==
    ctor \in {"cell_anchors", "offset", "done"} =>
        \A l \in 1..Len(sizes) :
            \A i \in 1..Len(sizes[l].items), j \in 1..Len(aspect_ratios[l].items) :
                FxExact(sizes[l].items[i].num, aspect_ratios[l].items[j].num)

---------------------------------------------------------------------------
(* Claims *)

\* an offset in the half-open interval [0, 1)
InRange(off) == 0 <= off /\ off < Fx(1)

\* the property num_anchors
num_anchors == [l \in 1..Len(cell_anchors) |-> Len(cell_anchors[l])]

Translate(box, sx, sy) == <<box[1] + sx, box[2] + sy, box[3] + sx, box[4] + sy>>

\* what C1 says of the levels a call has tiled so far
Tiling(c) ==
    \A l \in 1..Len(c.anchors) :
        LET H == c.grid_sizes[l][1]
            W == c.grid_sizes[l][2]
            A == num_anchors[l]
            g == compute_grid_offsets(c.grid_sizes[l], strides[l], offset).val
            out == c.anchors[l]
        IN  /\ Len(out) = H * W * A
            /\ \A p \in 0..(H * W - 1), k \in 0..(A - 1) :
                   out[p * A + k + 1] = Translate(cell_anchors[l][k + 1], g[1][p + 1], g[2][p + 1])

\* C1: every level a call of grid_anchors has tiled holds exactly H*W*A boxes, and
\* the box at flat index p*A + k is cell anchor k translated by (shift_x[p],
\* shift_y[p], shift_x[p], shift_y[p]): grid-position-major, cell-anchor-minor.
C1_TilingOrder == \A t \in Threads : Tiling(calls[t])

\* C1 on the generators whose offset lies in [0, 1)
C1_TilingOrderInRange == InRange(offset) => \A t \in Threads : Tiling(calls[t])

RECURSIVE SumTo(_, _)
SumTo(f, n) == IF n = 0 THEN 0 ELSE f[n] + SumTo(f, n - 1)

\* what C3 says of a finished call with one feature shape per level
CatOfLevels(c) ==
    LET count == [l \in 1..num_features |->
                     c.grid_sizes[l][1] * c.grid_sizes[l][2] * num_anchors[l]]
        lens == [l \in 1..Len(c.anchors) |-> Len(c.anchors[l])]
    IN  /\ c.pc = "done"
        /\ Len(c.out) = SumTo(count, num_features)
        /\ Len(c.anchors) = num_features
        /\ Len(c.out) = SumTo(lens, num_features)
        /\ \A l \in 1..num_features : \A k \in 1..lens[l] :
               c.out[SumTo(lens, l - 1) + k] = c.anchors[l][k]

\* C3: a call of forward with one feature shape per level returns
\* sum over the levels of H*W*num_cell_anchors boxes, the per-level outputs laid
\* end to end in the order of the levels.
C3_OutputCardinality ==
    \A t \in Threads :
        (calls[t].pc \in {"done", "raised"} /\ Len(calls[t].grid_sizes) = num_features)
            => CatOfLevels(calls[t])

\* C3 on the generators whose offset lies in [0, 1)
C3_OutputCardinalityInRange == InRange(offset) => C3_OutputCardinality

\* the three shapes of a parameter list
IsFlat(p) == p.isList /\ Len(p.items) > 0 /\ \A k \in 1..Len(p.items) : ~p.items[k].isList

IsNested(p) == p.isList /\ Len(p.items) > 0 /\ \A k \in 1..Len(p.items) : p.items[k].isList

BroadcastLaw(p, n, result) ==
    /\ Len(result) = n
    /\ \A l \in 1..n : result[l].isList
    /\ IsFlat(p) => \A l \in 1..n : result[l] = p
    /\ (IsNested(p) /\ Len(p.items) = 1) => \A l \in 1..n : result[l] = p.items[1]
    /\ (IsNested(p) /\ Len(p.items) = n) => \A l \in 1..n : result[l] = p.items[l]

\* C4: whenever _broadcast_params succeeds it returns exactly num_levels per-level
\* lists: copies of a flat list, copies of the one inner list of a nested list of
\* length 1, and a nested list of length num_levels entry for entry.
C4_BroadcastLaws ==
    /\ ctor \in {"aspect_ratios", "cell_anchors", "offset", "done"}
           => BroadcastLaw(args.sizes, Len(args.strides), sizes)
    /\ ctor \in {"cell_anchors", "offset", "done"}
           => BroadcastLaw(args.aspect_ratios, Len(args.strides), aspect_ratios)

C4_Witness ==
    /\ ctor = "cell_anchors"
    /\ Len(args.strides) = 2
    /\ args.sizes = NestedList(<<<<4, 16>>>>)
    /\ args.aspect_ratios = FlatList(<<1, 16>>)
    /\ sizes = <<FlatList(<<4, 16>>), FlatList(<<4, 16>>)>>
    /\ aspect_ratios = <<FlatList(<<1, 16>>), FlatList(<<1, 16>>)>>

\* the parameter lists C5 says are refused for n levels
BadParams(p, n) ==
    \/ ~p.isList
    \/ Len(p.items) = 0
    \/ IsNested(p) /\ Len(p.items) > 1 /\ Len(p.items) # n

\* C5: _broadcast_params raises, returning nothing, on a parameter that is no
\* list, is empty, or is a nested list of length > 1 other than num_levels; the
\* constructor, which broadcasts sizes and aspect_ratios against len(strides),
\* fails in the same cases.
C5_BroadcastFailure ==
    /\ (ctor \notin {"none", "sizes"} /\ BadParams(args.sizes, Len(args.strides)))
           => (ctor = "raised" /\ raised = "AssertionError" /\ sizes = <<>>)
    /\ (ctor \notin {"none", "sizes", "aspect_ratios"}
            /\ BadParams(args.aspect_ratios, Len(args.strides)))
           => (ctor = "raised" /\ raised = "AssertionError" /\ aspect_ratios = <<>>)
    /\ ctor = "done" => /\ ~BadParams(args.sizes, Len(args.strides))
                        /\ ~BadParams(args.aspect_ratios, Len(args.strides))

C5_Witness ==
    /\ ctor = "raised"
    /\ raised = "AssertionError"
    /\ Len(args.strides) = 1
    /\ args.sizes = FlatList(<<4, 8>>)
    /\ args.aspect_ratios = NestedList(<<<<4>>, <<16>>>>)
    /\ sizes = <<FlatList(<<4, 8>>)>>

\* C6: a call of forward with a list of feature shapes whose length differs from
\* the number of levels never completes and never holds an output, not even the
\* anchors of some of the levels.
C6_ShapeMismatchFails ==
    \A t \in Threads :
        (calls[t].pc # "idle" /\ Len(calls[t].grid_sizes) # num_features)
            => /\ calls[t].pc # "done"
               /\ calls[t].anchors = <<>>
               /\ calls[t].out = <<>>

\* C7: the constructor fails on an offset outside [0, 1), so that no constructed
\* generator holds such an offset.
C7_OffsetValidated == ctor = "done" => (InRange(args.offset) /\ InRange(offset))

NonPositive(levels) ==
    \E l \in 1..Len(levels) : \E k \in 1..Len(levels[l].items) : levels[l].items[k].num <= 0

\* C8: the constructor fails, and leaves no cell anchors, whenever a size or an
\* aspect ratio of a level is zero or negative.
C8_NonPositiveRejected ==
    (ctor \in {"offset", "done", "raised"} /\ (NonPositive(sizes) \/ NonPositive(aspect_ratios)))
        => (ctor = "raised" /\ cell_anchors = <<>>)

\* the part of C8 the code does keep: a zero aspect ratio, and a negative one
\* beside a size other than zero, make the constructor raise
C8_RatioRejected ==
    ctor \in {"offset", "done"} =>
        \A l \in 1..Len(aspect_ratios) : \A j \in 1..Len(aspect_ratios[l].items) :
            LET r == aspect_ratios[l].items[j].num IN
            /\ r # 0
            /\ r < 0 => \A i \in 1..Len(sizes[l].items) : sizes[l].items[i].num = 0

\* C2: generate_cell_anchors returns |sizes| * |aspect_ratios| boxes, the box at
\* index i*|aspect_ratios| + j built from sizes[i] and aspect_ratios[j]
\* (size-major, aspect-ratio-minor), and num_anchors counts them; it raises only
\* on an aspect ratio that is not positive.
C2_CellAnchorOrder ==
    /\ ctor \in {"offset", "done"} =>
        /\ Len(cell_anchors) = num_features
        /\ \A l \in 1..num_features :
               LET S == sizes[l].items
                   R == aspect_ratios[l].items
               IN  /\ num_anchors[l] = Len(S) * Len(R)
                   /\ \A i \in 0..(Len(S) - 1), j \in 0..(Len(R) - 1) :
                          cell_anchors[l][i * Len(R) + j + 1] = CellBox(S[i + 1].num, R[j + 1].num).val
    /\ (ctor = "raised" /\ raised \in {"ZeroDivisionError", "ValueError"})
           => NonPositive(aspect_ratios)

C2_Witness ==
    /\ ctor = "done"
    /\ num_features = 2
    /\ args.sizes = FlatList(<<4, 8>>)
    /\ args.aspect_ratios = FlatList(<<1, 16>>)
    /\ cell_anchors[1] = << <<-4, -1, 4, 1>>, <<-1, -4, 1, 4>>,
                            <<-8, -2, 8, 2>>, <<-2, -8, 2, 8>> >>

\* C9: calls of forward, interleaved in any way, leave the constructed state as
\* the constructor made it, and each returns (or raises) what one call with the
\* same feature shapes returns on a fresh instance; equal inputs, equal outputs.
C9_Independence ==
    ctor = "done" =>
        LET fresh == construct(args) IN
        /\ fresh.err = "none"
        /\ self = fresh.val
        /\ \A t \in Threads :
               LET c == calls[t]
                   r == forward(fresh.val, c.grid_sizes)
               IN  /\ c.pc = "done" => (r.err = "none" /\ c.out = r.val)
                   /\ c.pc = "raised" => r.err = c.exc
        /\ \A t, u \in Threads :
               (calls[t].pc = "done" /\ calls[u].pc = "done"
                    /\ calls[t].grid_sizes = calls[u].grid_sizes)
                   => calls[t].out = calls[u].out

C9_Witness ==
    /\ num_features = 2
    /\ offset = 2
    /\ calls[1].pc = "done"
    /\ calls[1].grid_sizes = << <<2, 2>>, <<1, 2>> >>
    /\ calls[2].pc = "loop"
    /\ calls[2].i = 2
    /\ calls[2].grid_sizes = << <<1, 2>>, <<2, 2>> >>

\* C10: on an offset in [0, 1), _compute_grid_offsets returns H*W x and H*W y
\* coordinates in row-major order: at index i*W + j, x = offset*stride + j*stride
\* and y = offset*stride + i*stride.
C10_GridOffsets ==
    \A t \in Threads :
        LET c == calls[t] IN
        (c.i > 1 /\ InRange(offset)) =>
            LET l == c.i - 1
                H == c.grid_sizes[l][1]
                W == c.grid_sizes[l][2]
                s == strides[l]
            IN  /\ Len(c.shift_x) = H * W
                /\ Len(c.shift_y) = H * W
                /\ \A i \in 0..(H - 1), j \in 0..(W - 1) :
                       /\ c.shift_x[i * W + j + 1] = offset * s + j * Fx(s)
                       /\ c.shift_y[i * W + j + 1] = offset * s + i * Fx(s)

\* stride 8, offset 0, (H, W) = (2, 3): (0,0),(8,0),(16,0),(0,8),(8,8),(16,8)
C10_Witness ==
    /\ offset = 0
    /\ calls[1].i = 2
    /\ calls[1].grid_sizes[1] = <<2, 3>>
    /\ strides[1] = 8
    /\ calls[1].shift_x = <<Fx(0), Fx(8), Fx(16), Fx(0), Fx(8), Fx(16)>>
    /\ calls[1].shift_y = <<Fx(0), Fx(0), Fx(0), Fx(8), Fx(8), Fx(8)>>

====
